---- MODULE Spec2Model ----
(***************************************************************************)
(* Model of the service tree synchronisation of frodo-lib                  *)
(* (src/src/ops/ServiceOps.ts): export, import and delete of services and  *)
(* their next descendents against a remote backend.                        *)
(*                                                                         *)
(* One action is one turn of the JavaScript event loop: the response to    *)
(* one remote request together with the continuation that awaits it, up    *)
(* to the next await.  Requests issued by a Promise.all are all in flight  *)
(* at once and complete in any order.                                      *)
(***************************************************************************)
EXTENDS Integers, Sequences, FiniteSets, Bags, TLC

\* ---------------------------------------------------------------- bounds
\* remote failures injected in one run (on top of the remote's own 404s)
MaxFailures == 2
\* top-level calls of one run (an import may be repeated on the same envelope)
MaxCalls == 2

ServiceIds == {"s1", "s2"}
\* the order in which the remote lists services
ServiceOrder == <<"s1", "s2">>
\* child descriptors { _type: { _id }, _id } (ServiceNextDescendent)
Children == {[_type |-> "a", _id |-> "c1"], [_type |-> "b", _id |-> "c2"]}

\* ---------------------------------------------------------------- values
Undefined == [t |-> "undefined"]
ServiceObj(id) == [t |-> "service", _id |-> id]

\* error.response of a failed remote call: status and data.message
NotFound == [status |-> 404, message |-> "Not Found"]
NotFoundOther == [status |-> 404, message |-> "No such service"]
CapabilityGap ==
  [status |-> 403,
   message |-> "This operation is not available in ForgeRock Identity Cloud."]
Forbidden == [status |-> 403, message |-> "Forbidden"]
\* an exception that carries no response (a TypeError thrown by the code)
TypeError == [status |-> 0, message |-> "undefined"]
Errors == {NotFound, NotFoundOther, CapabilityGap, Forbidden}

Ok(v) == [ok |-> TRUE, value |-> v]
Fail(e) == [ok |-> FALSE, error |-> e]

\* -------------------------------------------------------------- envelope
\* An entry of importData.service: `has` is the set of optional fields the
\* entry holds, nextDescendents the child list when it holds one, and
\* descendentHas the optional fields each child descriptor of the list holds.
BackendFields == {"_rev", "enabled"}
Entries ==
  {[has |-> h \cup {"nextDescendents"}, nextDescendents |-> c,
    descendentHas |-> d] :
     h \in SUBSET BackendFields, c \in (SUBSET Children) \ {{}},
     d \in {{}, BackendFields}}
  \cup {[has |-> h \cup n, nextDescendents |-> {}, descendentHas |-> {}] :
          h \in SUBSET BackendFields, n \in {{}, {"nextDescendents"}}}

\* importData.service is an object: its entries in key order
Keys(env) == {env[i].id : i \in 1..Len(env)}
Lookup(env, id) ==
  IF id \in Keys(env)
  THEN (CHOOSE i \in 1..Len(env) : env[i].id = id)
  ELSE 0

\* the envelopes handed to importService: it reads one entry
Envelopes ==
  {<<>>} \cup {<<[id |-> a, data |-> e]>> : a \in ServiceIds, e \in Entries}

\* the envelopes handed to importServices: entries as an export writes them,
\* with the backend's fields; the child list may have been removed by hand
BatchEntries ==
  {e \in Entries :
     /\ BackendFields \subseteq e.has
     /\ e.nextDescendents # {} => e.descendentHas = BackendFields}
BatchEnvelopes ==
  {<<>>}
  \cup {<<[id |-> a, data |-> e]>> : a \in ServiceIds, e \in BatchEntries}
  \cup {<<[id |-> "s1", data |-> e1], [id |-> "s2", data |-> e2]>> :
          e1 \in BatchEntries, e2 \in BatchEntries}

\* ---------------------------------------------------------------- state
VARIABLES
  remote,      \* the backend: per service id, whether it exists and its children
  importData,  \* importData.service, the envelope the caller passes to import
  original,    \* the envelope as the caller built it (never assigned again)
  top,         \* the top-level call in progress: op, id, clean, loop index
  pc,          \* per service id: where the per-service pipeline stands
  nd,          \* per service id: the local `nextDescendents` of putFullService
  inflight,    \* remote requests issued and not yet answered
  calls,       \* bag of the remote calls issued by the current top-level call
  messages,    \* bag of the messages printed by the current top-level call
  results,     \* the local `results` array of putFullServices
  item,        \* per service id: the other locals of its pipeline
  ret,         \* settlement of the top-level call's promise
  answered,    \* the requests of the current call answered so far
  nfail,       \* remote failures injected so far
  ncalls,      \* top-level calls started so far
  scripts,     \* the backend's scripts: which id is stored under which name
  tasks,       \* per script of the import: its `data` and its invocation
  variables    \* the backend's variables: the ids it holds

vars ==
  <<remote, importData, original, top, pc, nd, inflight, calls, messages,
    results, item, ret, answered, nfail, ncalls, scripts, tasks,
    variables>>

\* the program's state as one record, so that a continuation is a function
State ==
  [remote |-> remote, importData |-> importData, original |-> original,
   top |-> top, pc |-> pc,
   nd |-> nd, inflight |-> inflight, calls |-> calls, messages |-> messages,
   results |-> results, item |-> item, ret |-> ret, answered |-> answered,
   nfail |-> nfail, ncalls |-> ncalls, scripts |-> scripts, tasks |-> tasks,
   variables |-> variables]

Assign(s) ==
  /\ remote' = s.remote
  /\ importData' = s.importData
  /\ top' = s.top
  /\ pc' = s.pc
  /\ nd' = s.nd
  /\ inflight' = s.inflight
  /\ calls' = s.calls
  /\ messages' = s.messages
  /\ results' = s.results
  /\ item' = s.item
  /\ ret' = s.ret
  /\ answered' = s.answered
  /\ nfail' = s.nfail
  /\ ncalls' = s.ncalls
  /\ original' = s.original
  /\ scripts' = s.scripts
  /\ tasks' = s.tasks
  /\ variables' = s.variables

\* ------------------------------------------------------- remote backend
\* The remote resource service behind ../api/ServiceApi.
NoChild == [_type |-> "-", _id |-> "-"]
Child(type, cid) == [_type |-> type, _id |-> cid]
NoService == [exists |-> FALSE, children |-> {}]
Remotes ==
  [ServiceIds -> {NoService}
     \cup {[exists |-> TRUE, children |-> c] : c \in SUBSET Children}]

Request(fn, id, child, n) == [fn |-> fn, id |-> id, child |-> child, n |-> n]

\* what the backend answers to request r when it does not fail otherwise
RemoteAnswer(rem, r) ==
  CASE r.fn = "getListOfServices" ->
         Ok(SelectSeq(ServiceOrder, LAMBDA i : rem[i].exists))
    [] r.fn = "getService" ->
         IF rem[r.id].exists THEN Ok(ServiceObj(r.id)) ELSE Fail(NotFound)
    [] r.fn = "getServiceDescendents" ->
         IF rem[r.id].exists THEN Ok(rem[r.id].children) ELSE Fail(NotFound)
    [] r.fn = "putService" -> Ok(ServiceObj(r.id))
    [] r.fn = "putServiceNextDescendent" ->
         IF rem[r.id].exists THEN Ok(r.child) ELSE Fail(NotFound)
    [] r.fn = "deleteServiceNextDescendent" ->
         IF r.child \in rem[r.id].children THEN Ok(r.child) ELSE Fail(NotFound)
    [] r.fn = "deleteService" ->
         IF rem[r.id].exists THEN Ok(ServiceObj(r.id)) ELSE Fail(NotFound)

\* the backend's state after request r succeeded
RemoteApply(rem, r) ==
  CASE r.fn = "putService" ->
         [rem EXCEPT ![r.id] = [exists |-> TRUE, children |-> @.children]]
    [] r.fn = "putServiceNextDescendent" ->
         [rem EXCEPT ![r.id].children = @ \cup {r.child}]
    [] r.fn = "deleteServiceNextDescendent" ->
         [rem EXCEPT ![r.id].children = @ \ {r.child}]
    [] r.fn = "deleteService" -> [rem EXCEPT ![r.id] = NoService]
    [] OTHER -> rem

\* ------------------------------------------------------------- plumbing
\* issue a remote call: it is counted and stays in flight until answered
Call(fn, id, type, cid, body) ==
  [fn |-> fn, id |-> id, type |-> type, cid |-> cid, body |-> body]

Issue(s, fn, id, type, cid, body) ==
  [s EXCEPT
     !.inflight = @ \cup {Request(fn, id, Child(type, cid), s.ncalls)},
     !.calls = @ (+) SetToBag({Call(fn, id, type, cid, body)})]

RECURSIVE IssueAll(_, _, _, _, _)
IssueAll(s, fn, id, cs, body) ==
  IF cs = {} THEN s
  ELSE LET c == CHOOSE x \in cs : TRUE
       IN IssueAll(Issue(s, fn, id, c._type, c._id, body), fn, id, cs \ {c},
                   body)

\* the requests of the current call a Promise.all still waits for
Pending(s, fn, id) ==
  {r \in s.inflight : r.fn = fn /\ r.id = id /\ r.n = s.ncalls}

printMessage(s, type, text, id, child, message) ==
  [s EXCEPT
     !.messages = @ (+) SetToBag({[type |-> type, text |-> text, id |-> id,
                                   child |-> child, message |-> message]})]

\* the error a catch block receives, if any
Caught(out) == IF out.ok THEN Undefined ELSE out.error

Settled(out) ==
  IF out.ok THEN [status |-> "resolved", value |-> out.value]
  ELSE [status |-> "rejected", value |-> out.error]

IsNotFound(e) == e.status = 404 /\ e.message = "Not Found"
\* variant: the capability gap recognised by its status alone
IsCapabilityGap_statusOnly(e) == e.status = 403

IsCapabilityGap(e) ==
  /\ e.status = 403
  /\ e.message = "This operation is not available in ForgeRock Identity Cloud."

\* ------------------------------------------------------- putFullService
\* putFullService settles only after putFullServices is defined below
RECURSIVE putFullService_settle(_, _, _)

\* variant: no try/catch around the child write, so that the first failing
\* child rejects the Promise.all and the import
putFullService_child_failfast(s, id, r, out) ==
  IF ~out.ok THEN putFullService_settle(s, id, Fail(out.error))
  ELSE IF Pending(s, "putServiceNextDescendent", id) = {}
  THEN putFullService_settle(s, id, Ok(Undefined))
  ELSE s

\* lines 131-151: the answer to one child write; the Promise.all of line 130
\* resolves once every child write has been answered
putFullService_child(s, id, r, out) ==
  LET s1 == IF out.ok THEN s
            ELSE printMessage(s, "error", "Put descendent", id, r.child,
                              out.error.message)
  IN IF Pending(s1, "putServiceNextDescendent", id) = {}
     THEN putFullService_settle(s1, id, Ok(Undefined))
     ELSE s1

\* variant: the import ends with the parent write
putFullService_created_parentOnly(s, id, out) ==
  IF ~out.ok THEN putFullService_settle(s, id, Fail(out.error))
  ELSE putFullService_settle(s, id, Ok(out.value))

\* lines 121-130: the answer to the parent write
putFullService_created(s, id, out) ==
  IF ~out.ok THEN putFullService_settle(s, id, Fail(out.error))
  ELSE IF ~s.nd[id].defined
  THEN putFullService_settle(s, id, Fail(TypeError))
  ELSE IF s.nd[id].list = {}
  THEN putFullService_settle(s, id, Ok(out.value))
  ELSE [IssueAll(s, "putServiceNextDescendent", id, s.nd[id].list,
                 s.nd[id].has)
          EXCEPT !.pc[id] = "pfs_children"]

\* variant: the parent and its children written in one Promise.all
putFullService_put_eager(s, id) ==
  LET k == Lookup(s.importData, id)
      s1 == Issue(s, "putService", id, "-", "-", s.importData[k].data.has)
  IN [IssueAll(s1, "putServiceNextDescendent", id, s.nd[id].list,
               s.nd[id].has)
        EXCEPT !.pc[id] = "pfs_put"]

\* line 121: create service first
putFullService_put(s, id) ==
  LET k == Lookup(s.importData, id)
  IN [Issue(s, "putService", id, "-", "-", s.importData[k].data.has)
        EXCEPT !.pc[id] = "pfs_put"]

\* variant: a failure of the pre-clean other than 404 'Not Found' is thrown
\* again after it has been printed
putFullService_cleaned_rethrow(s, id, out) ==
  IF out.ok \/ IsNotFound(out.error) THEN putFullService_put(s, id)
  ELSE putFullService_settle(
         printMessage(s, "error", "Error deleting service before import",
                      id, NoChild, out.error.message),
         id, Fail(out.error))

\* lines 104-121: deleteFullService of the clean import has settled
putFullService_cleaned(s, id, out) ==
  LET s1 == IF out.ok \/ IsNotFound(out.error) THEN s
            ELSE printMessage(s, "error",
                              "Error deleting service before import",
                              id, NoChild, out.error.message)
  IN putFullService_put(s1, id)

\* --------------------------------------------------- deleteFullServices
\* lines 216-239: one item of the batch has settled; the Promise.all of line
\* 214 resolves once every item has
deleteFullServices_item(s, id, out) ==
  LET s1 == IF out.ok \/ IsCapabilityGap(out.error) THEN s
            ELSE printMessage(s, "error", "Delete service", id, NoChild,
                              out.error.message)
      s2 == [s1 EXCEPT !.pc[id] = "done"]
  IN IF \A i \in 1..Len(s2.top.list) : s2.pc[s2.top.list[i]] = "done"
     THEN [s2 EXCEPT !.ret = Settled(Ok(Undefined))]
     ELSE s2

\* ---------------------------------------------------- deleteFullService
\* deleteFullService has settled: its caller goes on
deleteFullService_settle(s, id, out) ==
  LET s1 == [s EXCEPT !.item[id].settled = TRUE,
                      !.item[id].caught = Caught(out)]
  IN CASE s.top.op \in {"importService", "importServices"} ->
            putFullService_cleaned(s1, id, out)
       [] s.top.op = "deleteFullServices" ->
            deleteFullServices_item(s1, id, out)
       [] OTHER -> [s1 EXCEPT !.pc[id] = "done", !.ret = Settled(out)]

\* line 203: the answer to the parent delete
deleteFullService_parent(s, id, out) ==
  deleteFullService_settle(s, id, IF out.ok THEN Ok(Undefined) ELSE out)

\* lines 193-203: the answer to one child delete while the Promise.all is
\* pending: the first failure rejects it, the last success resolves it
deleteFullService_child(s, id, out) ==
  IF ~out.ok THEN deleteFullService_settle(s, id, out)
  ELSE IF Pending(s, "deleteServiceNextDescendent", id) = {}
  THEN [Issue(s, "deleteService", id, "-", "-", {})
          EXCEPT !.pc[id] = "dfs_parent"]
  ELSE s

\* lines 191-203: the answer to the child listing
deleteFullService_listed(s, id, out) ==
  IF ~out.ok THEN deleteFullService_settle(s, id, out)
  ELSE LET s1 == [s EXCEPT !.item[id].listed =
                             [defined |-> TRUE, list |-> out.value]]
       IN IF out.value = {}
          THEN [Issue(s1, "deleteService", id, "-", "-", {})
                  EXCEPT !.pc[id] = "dfs_parent"]
          ELSE [IssueAll(s1, "deleteServiceNextDescendent", id, out.value,
                         {})
                  EXCEPT !.pc[id] = "dfs_children"]

\* variant: nothing is deleted
deleteFullService_skip(s, id) == deleteFullService_settle(s, id, Ok(Undefined))

\* line 191
deleteFullService(s, id) ==
  [Issue(s, "getServiceDescendents", id, "-", "-", {})
     EXCEPT !.pc[id] = "dfs_list"]

\* -------------------------------------------- putFullService, the start
\* lines 94-98: the entry is the caller's object; the deletes change it
StripEntry(e) ==
  [has |-> e.has \ {"nextDescendents", "_rev", "enabled"},
   nextDescendents |-> {}, descendentHas |-> {}]

\* variant: a missing entry is replaced by an empty one
putFullService_defaultEntry(s, id, clean) ==
  LET s0 == IF Lookup(s.importData, id) # 0 THEN s
            ELSE [s EXCEPT !.importData =
                    Append(@, [id |-> id,
                               data |-> [has |-> {}, nextDescendents |-> {},
                                         descendentHas |-> {}]])]
      k == Lookup(s0.importData, id)
      e == s0.importData[k].data
      s1 == [s0 EXCEPT
               !.nd[id] = [defined |-> "nextDescendents" \in e.has,
                           list |-> e.nextDescendents,
                           has |-> e.descendentHas],
               !.importData[k].data = StripEntry(e)]
  IN IF clean THEN deleteFullService(s1, id)
     ELSE putFullService_put(s1, id)

\* lines 93-121
putFullService(s, id, clean) ==
  LET k == Lookup(s.importData, id)
  IN IF k = 0 THEN putFullService_settle(s, id, Fail(TypeError))
     ELSE LET e == s.importData[k].data
              s1 == [s EXCEPT
                       !.nd[id] = [defined |-> "nextDescendents" \in e.has,
                                   list |-> e.nextDescendents,
                                   has |-> e.descendentHas],
                       !.importData[k].data = StripEntry(e)]
          IN IF clean THEN deleteFullService(s1, id)
             ELSE putFullService_put(s1, id)

\* ------------------------------------------------------ putFullServices
\* variant: the first turn of the loop starts the import of every entry
putFullServices_from_fanout(s, i) ==
  IF i > Len(s.importData)
  THEN [s EXCEPT !.top.i = i,
                 !.ret = Settled(Ok([t |-> "array", items |-> s.results]))]
  ELSE IF i = 1 /\ Len(s.importData) = 2
  THEN putFullService(
         putFullService([s EXCEPT !.top.i = i], s.importData[1].id,
                        s.top.clean),
         s.importData[2].id, s.top.clean)
  ELSE putFullService([s EXCEPT !.top.i = i], s.importData[i].id, s.top.clean)

\* lines 168-183: the loop from entry i on; it ends by returning results
putFullServices_from(s, i) ==
  IF i > Len(s.importData)
  THEN [s EXCEPT !.top.i = i,
                 !.ret = Settled(Ok([t |-> "array", items |-> s.results]))]
  ELSE putFullService([s EXCEPT !.top.i = i], s.importData[i].id, s.top.clean)

\* variant: no try/catch around the item, so that the first failing item
\* rejects the batch
putFullServices_next_abort(s, id, out) ==
  IF out.ok
  THEN putFullServices_from(
         printMessage([s EXCEPT !.results = Append(@, out.value)],
                      "info", "Imported", id, NoChild, ""),
         s.top.i + 1)
  ELSE [s EXCEPT !.ret = Settled(out)]

\* lines 170-180: the per-entry try/catch, then the next entry
putFullServices_next(s, id, out) ==
  LET s1 == IF out.ok
            THEN printMessage([s EXCEPT !.results = Append(@, out.value)],
                              "info", "Imported", id, NoChild, "")
            ELSE printMessage(s, "error", "Import service", id, NoChild,
                              out.error.message)
  IN putFullServices_from(s1, s1.top.i + 1)

putFullService_settle(s, id, out) ==
  LET s1 == [s EXCEPT !.pc[id] = "done"]
  IN IF s1.top.op = "importServices" THEN putFullServices_next(s1, id, out)
     ELSE [s1 EXCEPT !.ret = Settled(out)]

\* lines 291-301
importService(s, id, clean) == putFullService(s, id, clean)

\* lines 307-328: putFullServices never rejects, so the catch never runs
importServices(s, clean) == putFullServices_from(s, 1)

\* --------------------------------------------------------------- export
\* the service object the remote returns carries its backend-assigned
\* fields; lines 56-59 and 254 add the children to it
FullService(id, children) ==
  [id |-> id,
   data |-> [has |-> BackendFields \cup {"nextDescendents"},
             nextDescendents |-> children,
             descendentHas |-> IF children = {} THEN {} ELSE BackendFields]]

\* _type._id of the service the remote stores under id
ServiceTypeId(id) == IF id = "s1" THEN "s1" ELSE "type2"

\* lines 23-28
createServiceExportTemplate == <<>>

Envelope(e) == [t |-> "envelope", service |-> e]

\* lines 273-275: exportData.service[service._type._id] = service
RECURSIVE exportServices_fill(_, _)
exportServices_fill(exportData, services) ==
  IF services = <<>> THEN exportData
  ELSE LET key == ServiceTypeId(Head(services).id)
           new == [id |-> key, data |-> Head(services).data]
           k == Lookup(exportData, key)
       IN exportServices_fill(
            IF k = 0 THEN Append(exportData, new)
            ELSE [exportData EXCEPT ![k] = new],
            Tail(services))

\* lines 272-281: getFullServices has settled
exportServices_got(s, out) ==
  IF out.ok
  THEN [s EXCEPT !.ret = Settled(Ok(Envelope(
          exportServices_fill(createServiceExportTemplate, out.value))))]
  ELSE [printMessage(s, "error", "Export servics", "-", NoChild,
                     out.error.message)
          EXCEPT !.ret = Settled(Ok(Envelope(createServiceExportTemplate)))]

getFullServices_settle(s, out) ==
  IF s.top.op = "exportServices" THEN exportServices_got(s, out)
  ELSE [s EXCEPT !.ret =
          Settled(IF out.ok THEN Ok([t |-> "array", items |-> out.value])
                  ELSE out)]

\* variant: the items in the reverse of the list order
getFullServices_filter_reversed(s) ==
  LET got == SelectSeq(s.top.list, LAMBDA i : s.item[i].value # Undefined)
  IN [k \in 1..Len(got) |-> s.item[got[Len(got) + 1 - k]].value]

\* line 79: the items in list order, the undefined ones filtered out
getFullServices_filter(s) ==
  LET got == SelectSeq(s.top.list, LAMBDA i : s.item[i].value # Undefined)
  IN [k \in 1..Len(got) |-> s.item[got[k]].value]

\* lines 48-79: the outer Promise.all resolves once every item has settled
getFullServices_item(s, id, v) ==
  LET s1 == [s EXCEPT !.pc[id] = "done", !.item[id].settled = TRUE,
                      !.item[id].value = v]
  IN IF \A i \in 1..Len(s1.top.list) : s1.pc[s1.top.list[i]] = "done"
     THEN getFullServices_settle(s1, Ok(getFullServices_filter(s1)))
     ELSE s1

\* lines 60-74: the inner Promise.all of an item rejected
getFullServices_caught(s, id, e) ==
  LET s1 == IF IsCapabilityGap(e) THEN s
            ELSE printMessage(s, "error", "Unable to retrieve data", id,
                              NoChild, e.message)
  IN getFullServices_item(s1, id, Undefined)

\* lines 51-59: an answer to getService or getServiceDescendents of an item
getFullServices_fetched_parentFirst(s, id, r, out) ==
  IF ~out.ok
  THEN getFullServices_caught([s EXCEPT !.item[id].caught = out.error],
                              id, out.error)
  ELSE IF r.fn = "getService"
  THEN getFullServices_item([s EXCEPT !.item[id].service = out.value], id,
                            FullService(id, s.nd[id].list))
  ELSE [s EXCEPT !.nd[id] = [defined |-> TRUE, list |-> out.value]]

getFullServices_fetched(s, id, r, out) ==
  IF ~out.ok
  THEN getFullServices_caught([s EXCEPT !.item[id].caught = out.error],
                              id, out.error)
  ELSE LET s1 == IF r.fn = "getService"
                 THEN [s EXCEPT !.item[id].service = out.value]
                 ELSE [s EXCEPT !.nd[id] = [defined |-> TRUE,
                                            list |-> out.value]]
       IN IF s1.item[id].service # Undefined /\ s1.nd[id].defined
          THEN getFullServices_item(s1, id,
                                    FullService(id, s1.nd[id].list))
          ELSE s1

RECURSIVE getFullServices_map(_, _)
getFullServices_map(s, list) ==
  IF list = <<>> THEN s
  ELSE LET id == Head(list)
           s1 == Issue(Issue(s, "getService", id, "-", "-", {}),
                       "getServiceDescendents", id, "-", "-", {})
       IN getFullServices_map([s1 EXCEPT !.pc[id] = "gfs_fetch"], Tail(list))

\* lines 46-49: the answer to the service listing
getFullServices_listed(s, out) ==
  IF ~out.ok THEN getFullServices_settle(s, out)
  ELSE IF out.value = <<>> THEN getFullServices_settle(s, Ok(<<>>))
  ELSE getFullServices_map([s EXCEPT !.top.list = out.value], out.value)

\* line 46
getFullServices(s) == Issue(s, "getListOfServices", "-", "-", "-", {})

\* lines 268-272
exportServices(s) == getFullServices(s)

\* lines 256-261
exportService_caught(s, id, e) ==
  [printMessage(s, "error", "Export service", id, NoChild, e.message)
     EXCEPT !.pc[id] = "done", !.item[id].settled = TRUE,
            !.item[id].caught = e,
            !.ret = Settled(Ok(Envelope(createServiceExportTemplate)))]

\* lines 254-261: the answer to getServiceDescendents
exportService_children(s, id, out) ==
  IF ~out.ok THEN exportService_caught(s, id, out.error)
  ELSE [s EXCEPT !.pc[id] = "done", !.item[id].settled = TRUE,
                 !.ret = Settled(Ok(Envelope(
                           <<FullService(id, out.value)>>)))]

\* lines 253-254: the answer to getService
exportService_got(s, id, out) ==
  IF ~out.ok THEN exportService_caught(s, id, out.error)
  ELSE [Issue([s EXCEPT !.item[id].service = out.value],
              "getServiceDescendents", id, "-", "-", {})
          EXCEPT !.pc[id] = "exp_children"]

\* lines 250-253
exportService(s, id) ==
  [Issue(s, "getService", id, "-", "-", {}) EXCEPT !.pc[id] = "exp_get"]

\* lines 212-234: the answer to the service listing of deleteFullServices
RECURSIVE deleteFullServices_map(_, _)
deleteFullServices_map(s, list) ==
  IF list = <<>> THEN s
  ELSE deleteFullServices_map(deleteFullService(s, Head(list)), Tail(list))

\* variant: a failed listing is reported and the batch runs all the same
deleteFullServices_listed_anyway(s, out) ==
  IF ~out.ok
  THEN deleteFullServices_map(
         [printMessage(s, "error", "Delete services", "-", NoChild,
                       out.error.message)
            EXCEPT !.top.list = ServiceOrder],
         ServiceOrder)
  ELSE IF out.value = <<>> THEN [s EXCEPT !.ret = Settled(Ok(Undefined))]
  ELSE deleteFullServices_map([s EXCEPT !.top.list = out.value], out.value)

deleteFullServices_listed(s, out) ==
  IF ~out.ok
  THEN [printMessage(s, "error", "Delete services", "-", NoChild,
                     out.error.message)
          EXCEPT !.ret = Settled(Ok(Undefined))]
  ELSE IF out.value = <<>> THEN [s EXCEPT !.ret = Settled(Ok(Undefined))]
  ELSE deleteFullServices_map([s EXCEPT !.top.list = out.value], out.value)

\* line 212
deleteFullServices(s) == Issue(s, "getListOfServices", "-", "-", "-", {})

\* -------------------------------------------------------------- actions
NoTop == [op |-> "-", id |-> "-", clean |-> FALSE, i |-> 0, list |-> <<>>]
NoLocals == [defined |-> FALSE, list |-> {}]
NoItem ==
  [service |-> Undefined, value |-> Undefined, listed |-> NoLocals,
   settled |-> FALSE, caught |-> Undefined]

Init ==
  /\ remote \in Remotes
  /\ importData = <<>>
  /\ original = <<>>
  /\ top = NoTop
  /\ pc = [i \in ServiceIds |-> "idle"]
  /\ nd = [i \in ServiceIds |-> NoLocals]
  /\ inflight = {}
  /\ calls = EmptyBag
  /\ messages = EmptyBag
  /\ results = <<>>
  /\ item = [i \in ServiceIds |-> NoItem]
  /\ ret = [status |-> "none", value |-> Undefined]
  /\ answered = {}
  /\ nfail = 0
  /\ ncalls = 0
  /\ scripts = {}
  /\ tasks = <<>>
  /\ variables = {}

\* a top-level call starts: fresh locals, the call's own log
Begin(s, op, id, clean) ==
  [s EXCEPT
     !.top = [op |-> op, id |-> id, clean |-> clean, i |-> 0, list |-> <<>>],
     !.pc = [i \in ServiceIds |-> "idle"],
     !.nd = [i \in ServiceIds |-> NoLocals],
     !.item = [i \in ServiceIds |-> NoItem],
     !.calls = EmptyBag,
     !.messages = EmptyBag,
     !.results = <<>>,
     !.ret = [status |-> "pending", value |-> Undefined],
     !.answered = {},
     !.ncalls = @ + 1]

Run(s) ==
  CASE s.top.op = "importService" -> importService(s, s.top.id, s.top.clean)
    [] s.top.op = "importServices" -> importServices(s, s.top.clean)
    [] s.top.op = "deleteFullService" -> deleteFullService(s, s.top.id)
    [] s.top.op = "deleteFullServices" -> deleteFullServices(s)
    [] s.top.op = "exportService" -> exportService(s, s.top.id)
    [] s.top.op = "getFullServices" -> getFullServices(s)
    [] s.top.op = "exportServices" -> exportServices(s)

Given(env) == [State EXCEPT !.importData = env, !.original = env]

Call_importService ==
  /\ ncalls = 0
  /\ \E id \in ServiceIds, clean \in BOOLEAN, env \in Envelopes :
       Assign(Run(Begin(Given(env), "importService", id, clean)))

Call_importServices ==
  /\ ncalls = 0
  /\ \E clean \in BOOLEAN, env \in BatchEnvelopes :
       Assign(Run(Begin(Given(env), "importServices", "-", clean)))

\* the caller imports the same envelope object once more, after an import
\* that met no injected failure
Call_importAgain ==
  /\ ncalls \in 1..(MaxCalls - 1)
  /\ nfail = 0
  /\ ret.status \in {"resolved", "rejected"}
  /\ top.op = "importService"
  /\ Assign(Run(Begin(State, top.op, top.id, top.clean)))

\* the caller hands the envelope exportService returned to a clean
\* importService of the same id, against the same backend or an empty one
Call_importExported ==
  /\ ncalls \in 1..(MaxCalls - 1)
  /\ nfail = 0
  /\ top.op = "exportService"
  /\ ret.status = "resolved"
  /\ ret.value.service # <<>>
  /\ \E backend \in {"same", "empty"} :
       LET env == ret.value.service
           s0 == [State EXCEPT
                    !.importData = env,
                    !.original = env,
                    !.remote = IF backend = "same" THEN @
                               ELSE [i \in ServiceIds |-> NoService]]
           s1 == Begin(s0, "importService", top.id, TRUE)
       IN Assign(Run([s1 EXCEPT !.top =
                        [op |-> "importService", id |-> top.id,
                         clean |-> TRUE, i |-> 0, list |-> <<>>,
                         exported |-> env, backend |-> backend]]))

Call_deleteFullService ==
  /\ ncalls = 0
  /\ \E id \in ServiceIds :
       Assign(Run(Begin(State, "deleteFullService", id, FALSE)))

Call_deleteFullServices ==
  /\ ncalls = 0
  /\ Assign(Run(Begin(State, "deleteFullServices", "-", FALSE)))

Call_exportService ==
  /\ ncalls = 0
  /\ \E id \in ServiceIds :
       Assign(Run(Begin(State, "exportService", id, FALSE)))

Call_getFullServices ==
  /\ ncalls = 0
  /\ Assign(Run(Begin(State, "getFullServices", "-", FALSE)))

Call_exportServices ==
  /\ ncalls = 0
  /\ Assign(Run(Begin(State, "exportServices", "-", FALSE)))

\* the answers request r can get: the backend's own, or an injected failure
Answers(r) ==
  {RemoteAnswer(remote, r)}
  \cup IF nfail < MaxFailures THEN {Fail(e) : e \in Errors} ELSE {}

\* the backend has handled r with answer out
Served(s, r, out) ==
  [s EXCEPT
     !.inflight = @ \ {r},
     !.remote = IF out.ok THEN RemoteApply(@, r) ELSE @,
     !.answered = IF r.n = s.ncalls
                  THEN @ \cup {[fn |-> r.fn, id |-> r.id, child |-> r.child,
                                ok |-> out.ok]}
                  ELSE @,
     !.nfail = IF out = RemoteAnswer(s.remote, r) THEN @ ELSE @ + 1]

\* the code still awaits r: it belongs to the running call and the
\* pipeline of its service stands at one of pcs
Awaited(r, pcs) ==
  r.n = ncalls /\ ret.status = "pending" /\ pc[r.id] \in pcs

Respond_getListOfServices ==
  \E r \in inflight : \E out \in Answers(r) :
    /\ r.fn = "getListOfServices"
    /\ Assign(LET s == Served(State, r, out)
              IN IF top.op = "deleteFullServices"
                 THEN deleteFullServices_listed(s, out)
                 ELSE getFullServices_listed(s, out))

Respond_getService ==
  \E r \in inflight : \E out \in Answers(r) :
    /\ r.fn = "getService"
    /\ Assign(LET s == Served(State, r, out)
              IN IF Awaited(r, {"gfs_fetch"})
                 THEN getFullServices_fetched(s, r.id, r, out)
                 ELSE IF Awaited(r, {"exp_get"})
                 THEN exportService_got(s, r.id, out)
                 ELSE s)

Respond_getServiceDescendents ==
  \E r \in inflight : \E out \in Answers(r) :
    /\ r.fn = "getServiceDescendents"
    /\ Assign(LET s == Served(State, r, out)
              IN IF Awaited(r, {"gfs_fetch"})
                 THEN getFullServices_fetched(s, r.id, r, out)
                 ELSE IF Awaited(r, {"exp_children"})
                 THEN exportService_children(s, r.id, out)
                 ELSE IF Awaited(r, {"dfs_list"})
                 THEN deleteFullService_listed(s, r.id, out)
                 ELSE s)

Respond_deleteServiceNextDescendent ==
  \E r \in inflight : \E out \in Answers(r) :
    /\ r.fn = "deleteServiceNextDescendent"
    /\ Assign(LET s == Served(State, r, out)
              IN IF Awaited(r, {"dfs_children"})
                 THEN deleteFullService_child(s, r.id, out)
                 ELSE s)

Respond_deleteService ==
  \E r \in inflight : \E out \in Answers(r) :
    /\ r.fn = "deleteService"
    /\ Assign(LET s == Served(State, r, out)
              IN IF Awaited(r, {"dfs_parent"})
                 THEN deleteFullService_parent(s, r.id, out)
                 ELSE s)

Respond_putService ==
  \E r \in inflight : \E out \in Answers(r) :
    /\ r.fn = "putService"
    /\ Assign(LET s == Served(State, r, out)
              IN IF Awaited(r, {"pfs_put"})
                 THEN putFullService_created(s, r.id, out)
                 ELSE s)

Respond_putServiceNextDescendent ==
  \E r \in inflight : \E out \in Answers(r) :
    /\ r.fn = "putServiceNextDescendent"
    /\ Assign(LET s == Served(State, r, out)
              IN IF Awaited(r, {"pfs_children"})
                 THEN putFullService_child(s, r.id, r, out)
                 ELSE s)

\* the operations on one service
Next ==
  \/ Call_importService
  \/ Call_importAgain
  \/ Call_importExported
  \/ Call_deleteFullService
  \/ Call_exportService
  \/ Respond_getService
  \/ Respond_getServiceDescendents
  \/ Respond_deleteServiceNextDescendent
  \/ Respond_deleteService
  \/ Respond_putService
  \/ Respond_putServiceNextDescendent

Spec == Init /\ [][Next]_vars

\* the operations on all services
NextBatch ==
  \/ Call_importServices
  \/ Call_deleteFullServices
  \/ Call_getFullServices
  \/ Call_exportServices
  \/ Respond_getListOfServices
  \/ Respond_getService
  \/ Respond_getServiceDescendents
  \/ Respond_deleteServiceNextDescendent
  \/ Respond_deleteService
  \/ Respond_putService
  \/ Respond_putServiceNextDescendent

SpecBatch == Init /\ [][NextBatch]_vars

\* the export operations alone
NextExport ==
  \/ Call_exportService
  \/ Call_getFullServices
  \/ Call_exportServices
  \/ Respond_getListOfServices
  \/ Respond_getService
  \/ Respond_getServiceDescendents

SpecExport == Init /\ [][NextExport]_vars

\* -------------------------------------------------------------- scripts
\* createOrUpdateScript and importScriptsFromFile (ServiceOps.ts 461-542)
\* against the script store behind ../api/ScriptApi.

\* largest suffix n of a name already taken on the backend
MaxSuffix == 2
\* renames of one createOrUpdateScript invocation the model follows
MaxRetries == 5

\* a script name: `base` or `base - imported (n)` for n > 0
ScriptName(n) == [base |-> "myScript", n |-> n]

\* ids of the scripts other users stored, the script keys of the import
\* file, and the uuid generated for each key when reUuid is set
ForeignIds == <<"r0", "r1", "r2", "r3", "r4", "r5">>
ScriptKeys == <<"k1", "k2">>
uuidv4(key) == IF key = "k1" THEN "u1" ELSE "u2"

Conflict == [status |-> 409, message |-> "Conflict"]
\* a failure without a response: e.response?.status is undefined
NetworkError == [status |-> 0, message |-> "Network Error"]
ScriptErrors == {Forbidden, NetworkError}

\* the script stores a run can start from: names taken by other ids, and
\* possibly the imported script k1 already stored under a free name
ScriptStores ==
  UNION {{{[id |-> ForeignIds[n + 1], name |-> ScriptName(n)] : n \in T}
            \cup own :
            own \in {{}} \cup {{[id |-> "k1", name |-> ScriptName(n)]} :
                                 n \in (0..MaxSuffix) \ T}} :
         T \in SUBSET (0..MaxSuffix)}

ScriptRequest(key, id, name, n) ==
  [fn |-> "putScript", id |-> key, child |-> NoChild, n |-> n,
   sid |-> id, name |-> name]

\* putScript: a name stored under another id is a conflict
ScriptAnswer(store, r) ==
  IF \E x \in store : x.name = r.name /\ x.id # r.sid
  THEN Fail(Conflict)
  ELSE Ok(r.name)

ScriptApply(store, r) ==
  {x \in store : x.id # r.sid} \cup {[id |-> r.sid, name |-> r.name]}

\* `<name>` becomes `<name> - imported (1)`, `<name> - imported (n)`
\* becomes `<name> - imported (n+1)`
applyNameCollisionPolicy(name) == [name EXCEPT !.n = @ + 1]

NoTask ==
  [id |-> "-", name |-> ScriptName(0), depth |-> 0, status |-> "idle",
   result |-> Undefined]

\* line 469: await putScript(id, data)
createOrUpdateScript(s, key) ==
  LET t == s.tasks[key]
  IN [s EXCEPT
        !.tasks[key].status = "running",
        !.inflight = @ \cup {ScriptRequest(key, t.id, t.name, s.ncalls)},
        !.calls = @ (+) SetToBag({Call("putScript", key, "-", t.id,
                                        {t.name})})]

\* the outermost invocation has returned: the caller's continuation
createOrUpdateScript_settle(s, key, result) ==
  LET s1 == [s EXCEPT !.tasks[key].status = "done",
                      !.tasks[key].result = result]
  IN IF s.top.op = "createOrUpdateScript"
     THEN [s1 EXCEPT !.ret = [status |-> "resolved", value |-> result]]
     ELSE s1

\* lines 481-482: every invocation that caught a 409 awaits the nested one
\* and then returns { error: false, name: data.name } whatever it returned
createOrUpdateScript_return(s, key, inner) ==
  IF s.tasks[key].depth > 0
  THEN [error |-> FALSE, name |-> s.tasks[key].name]
  ELSE inner

\* lines 473-480: the warnings and data.name = applyNameCollisionPolicy(..)
createOrUpdateScript_rename_same(s, key) ==
  LET s1 == printMessage(s, "warn", "createOrUpdateScript WARNING",
                         key, NoChild, "")
  IN printMessage(s1, "warn", "Trying to save script as", key, NoChild, "")

createOrUpdateScript_rename(s, key) ==
  LET s1 == printMessage(s, "warn", "createOrUpdateScript WARNING",
                         key, NoChild, "")
      s2 == printMessage(s1, "warn", "Trying to save script as",
                         key, NoChild, "")
  IN [s2 EXCEPT !.tasks[key].name = applyNameCollisionPolicy(@)]

\* lines 472-482: the 409 branch renames data and calls itself
createOrUpdateScript_conflict_once(s, key) ==
  IF s.tasks[key].depth > 0
  THEN createOrUpdateScript_settle(s, key,
         [error |-> TRUE, name |-> s.tasks[key].name])
  ELSE createOrUpdateScript(
         [createOrUpdateScript_rename(s, key)
            EXCEPT !.tasks[key].depth = @ + 1], key)

createOrUpdateScript_conflict(s, key) ==
  createOrUpdateScript(
    [createOrUpdateScript_rename(s, key)
       EXCEPT !.tasks[key].depth = @ + 1], key)

\* lines 470-490: putScript of the innermost invocation was answered
createOrUpdateScript_put_noretry(s, key, out) ==
  IF out.ok
  THEN createOrUpdateScript_settle(s, key,
         [error |-> FALSE, name |-> s.tasks[key].name])
  ELSE LET s1 == printMessage(s, "error", "createOrUpdateScript ERROR",
                              key, NoChild, out.error.message)
       IN createOrUpdateScript_settle(s1, key,
            [error |-> TRUE, name |-> s.tasks[key].name])

createOrUpdateScript_put(s, key, out) ==
  IF out.ok
  THEN createOrUpdateScript_settle(s, key,
         createOrUpdateScript_return(s, key,
           [error |-> FALSE, name |-> s.tasks[key].name]))
  ELSE IF out.error.status = 409
  THEN createOrUpdateScript_conflict(s, key)
  ELSE LET s1 == printMessage(s, "error", "createOrUpdateScript ERROR",
                              key, NoChild, out.error.message)
       IN createOrUpdateScript_settle(s1, key,
            createOrUpdateScript_return(s1, key,
              [error |-> TRUE, name |-> s.tasks[key].name]))

stopProgressIndicator(s, message) ==
  printMessage(s, "progress", message, "-", NoChild, "")

\* lines 504-534: the loop over scriptData.script from its i-th key on
RECURSIVE importScriptsFromFile_loop(_, _)
importScriptsFromFile_loop(s, i) ==
  IF i > Len(s.top.list)
  THEN s
  ELSE LET key == s.top.list[i]
           newId == IF s.top.reUuid THEN uuidv4(key) ELSE key
           s1 == [s EXCEPT !.tasks[key].id = newId,
                           !.tasks[key].name =
                             IF s.top.name THEN ScriptName(0) ELSE @]
           s2 == createOrUpdateScript(s1, key)
       IN IF s.top.name THEN s2 ELSE importScriptsFromFile_loop(s2, i + 1)

\* lines 498-540: the callback of fs.readFile
importScriptsFromFile_read(s) ==
  IF s.top.valid
  THEN stopProgressIndicator(importScriptsFromFile_loop(s, 1), "Done")
  ELSE printMessage(s, "error", "Import validation failed...", "-",
                    NoChild, "")

\* lines 493-542: fs.readFile is started and the async function returns
importScriptsFromFile(s) ==
  [s EXCEPT
     !.inflight = @ \cup {[fn |-> "readFile", id |-> "-", child |-> NoChild,
                           n |-> s.ncalls]},
     !.ret = [status |-> "resolved", value |-> Undefined]]

InitScripts ==
  /\ remote = [i \in ServiceIds |-> NoService]
  /\ importData = <<>>
  /\ original = <<>>
  /\ top = NoTop
  /\ pc = [i \in ServiceIds |-> "idle"]
  /\ nd = [i \in ServiceIds |-> NoLocals]
  /\ inflight = {}
  /\ calls = EmptyBag
  /\ messages = EmptyBag
  /\ results = <<>>
  /\ item = [i \in ServiceIds |-> NoItem]
  /\ ret = [status |-> "none", value |-> Undefined]
  /\ answered = {}
  /\ nfail = 0
  /\ ncalls = 0
  /\ scripts \in ScriptStores
  /\ tasks = <<>>
  /\ variables = {}

BeginScripts(s, op, keys, name, reUuid, valid) ==
  [s EXCEPT
     !.top = [op |-> op, id |-> keys[1], clean |-> FALSE, i |-> 0,
              list |-> keys, name |-> name, reUuid |-> reUuid,
              valid |-> valid],
     !.tasks = [k \in {keys[i] : i \in 1..Len(keys)} |->
                  [NoTask EXCEPT !.id = k]],
     !.calls = EmptyBag,
     !.messages = EmptyBag,
     !.ret = [status |-> "pending", value |-> Undefined],
     !.answered = {},
     !.ncalls = @ + 1]

\* createOrUpdateScript(id, data) for a script named `base` or already
\* named `base - imported (1)`; the same import may be repeated, for the
\* same id or for a copy with another id
Call_createOrUpdateScript ==
  /\ ncalls < MaxCalls
  /\ ncalls = 0 \/ (top.op = "createOrUpdateScript" /\ ret.status = "resolved")
  /\ \E key \in {"k1", "k2"}, n \in 0..1 :
       Assign(LET s == BeginScripts(State, "createOrUpdateScript", <<key>>,
                                    FALSE, FALSE, TRUE)
              IN createOrUpdateScript(
                   [s EXCEPT !.tasks[key].name = ScriptName(n)], key))

Call_importScriptsFromFile ==
  /\ ncalls = 0
  /\ \E len \in 1..Len(ScriptKeys), name \in BOOLEAN, reUuid \in BOOLEAN,
        valid \in BOOLEAN :
       Assign(importScriptsFromFile(
                BeginScripts(State, "importScriptsFromFile",
                             SubSeq(ScriptKeys, 1, len), name, reUuid,
                             valid)))

Respond_readFile ==
  \E r \in inflight :
    /\ r.fn = "readFile"
    /\ Assign(importScriptsFromFile_read(
                [State EXCEPT !.inflight = @ \ {r}]))

ScriptAnswers(r) ==
  {ScriptAnswer(scripts, r)}
  \cup IF nfail < MaxFailures THEN {Fail(e) : e \in ScriptErrors} ELSE {}

ServedScript(s, r, out) ==
  [s EXCEPT
     !.inflight = @ \ {r},
     !.scripts = IF out.ok THEN ScriptApply(@, r) ELSE @,
     !.answered = @ \cup {[fn |-> r.fn, id |-> r.id, child |-> r.child,
                           ok |-> out.ok, name |-> r.name,
                           status |-> IF out.ok THEN 200
                                      ELSE out.error.status]},
     !.nfail = IF out = ScriptAnswer(s.scripts, r) THEN @ ELSE @ + 1]

Respond_putScript ==
  \E r \in {x \in inflight : x.fn = "putScript"} :
    \E out \in ScriptAnswers(r) :
    /\ tasks[r.id].depth < MaxRetries
    /\ Assign(createOrUpdateScript_put(ServedScript(State, r, out), r.id, out))

NextScripts ==
  \/ Call_createOrUpdateScript
  \/ Call_importScriptsFromFile
  \/ Respond_readFile
  \/ Respond_putScript

SpecScripts == InitScripts /\ [][NextScripts]_vars

\* ------------------------------------------------------------ variables
\* deleteVariablesCmd (VariablesOps.ts 156-179) against the variable store
\* behind ../api/VariablesApi.

\* the ids of the variables, in the order the backend lists them
VariableIds == <<"v1", "v2", "v3">>

\* a failed call carries error.response unless the network failed
HasResponse(e) == e.status # 0
VariableErrors == {Forbidden, NetworkError}

VariableAnswer(store, r) ==
  CASE r.fn = "getVariables" ->
         Ok(SelectSeq(VariableIds, LAMBDA v : v \in store))
    [] r.fn = "deleteVariable" ->
         IF r.id \in store THEN Ok(r.id) ELSE Fail(NotFound)

VariableApply(store, r) ==
  IF r.fn = "deleteVariable" THEN store \ {r.id} ELSE store

\* lines 173-178: the outer catch reads error.response.data.code
deleteVariablesCmd_catch(s, e) ==
  IF HasResponse(e)
  THEN [printMessage(s, "error", "Error", "-", NoChild, e.message)
          EXCEPT !.ret = Settled(Ok(Undefined))]
  ELSE [s EXCEPT !.ret = Settled(Fail(TypeError))]

\* lines 160-172: the loop from the i-th listed variable on
deleteVariablesCmd_from(s, i) ==
  IF i > Len(s.top.list)
  THEN [stopProgressIndicator(s, "Variables deleted.")
          EXCEPT !.top.i = i, !.ret = Settled(Ok(Undefined))]
  ELSE Issue([s EXCEPT !.top.i = i], "deleteVariable", s.top.list[i],
             "-", "-", {})

\* lines 161-170: the answer to deleteVariable; the inner catch reads
\* error.response.data.code, which throws when the error has no response
deleteVariablesCmd_deleted(s, id, out) ==
  IF out.ok
  THEN deleteVariablesCmd_from(
         printMessage(s, "progress", "Deleted variable", id, NoChild, ""),
         s.top.i + 1)
  ELSE IF HasResponse(out.error)
  THEN deleteVariablesCmd_from(
         printMessage(s, "error", "Error", id, NoChild, out.error.message),
         s.top.i + 1)
  ELSE deleteVariablesCmd_catch(s, TypeError)

\* lines 158-160: the answer to getVariables
deleteVariablesCmd_listed(s, out) ==
  IF ~out.ok THEN deleteVariablesCmd_catch(s, out.error)
  ELSE deleteVariablesCmd_from([s EXCEPT !.top.list = out.value], 1)

\* line 158
deleteVariablesCmd(s) == Issue(s, "getVariables", "-", "-", "-", {})

InitVariables ==
  /\ remote = [i \in ServiceIds |-> NoService]
  /\ importData = <<>>
  /\ original = <<>>
  /\ top = NoTop
  /\ pc = [i \in ServiceIds |-> "idle"]
  /\ nd = [i \in ServiceIds |-> NoLocals]
  /\ inflight = {}
  /\ calls = EmptyBag
  /\ messages = EmptyBag
  /\ results = <<>>
  /\ item = [i \in ServiceIds |-> NoItem]
  /\ ret = [status |-> "none", value |-> Undefined]
  /\ answered = {}
  /\ nfail = 0
  /\ ncalls = 0
  /\ scripts = {}
  /\ tasks = <<>>
  /\ variables \in SUBSET {VariableIds[i] : i \in 1..Len(VariableIds)}

\* the command may be run again once it has ended
Call_deleteVariablesCmd ==
  /\ ncalls < MaxCalls
  /\ ncalls = 0 \/ ret.status \in {"resolved", "rejected"}
  /\ Assign(deleteVariablesCmd(
              Begin(State, "deleteVariablesCmd", "-", FALSE)))

VariableAnswers(r) ==
  {VariableAnswer(variables, r)}
  \cup IF nfail < MaxFailures THEN {Fail(e) : e \in VariableErrors} ELSE {}

ServedVariable(s, r, out) ==
  [s EXCEPT
     !.inflight = @ \ {r},
     !.variables = IF out.ok THEN VariableApply(@, r) ELSE @,
     !.answered = @ \cup {[fn |-> r.fn, id |-> r.id, child |-> r.child,
                           ok |-> out.ok]},
     !.nfail = IF out = VariableAnswer(s.variables, r) THEN @ ELSE @ + 1]

Respond_getVariables ==
  \E r \in {x \in inflight : x.fn = "getVariables"} :
    \E out \in VariableAnswers(r) :
      Assign(deleteVariablesCmd_listed(ServedVariable(State, r, out), out))

Respond_deleteVariable ==
  \E r \in {x \in inflight : x.fn = "deleteVariable"} :
    \E out \in VariableAnswers(r) :
      Assign(deleteVariablesCmd_deleted(ServedVariable(State, r, out),
                                        r.id, out))

NextVariables ==
  \/ Call_deleteVariablesCmd
  \/ Respond_getVariables
  \/ Respond_deleteVariable

SpecVariables == InitVariables /\ [][NextVariables]_vars

\* ------------------------------------------------------------ properties
Done == ret.status \in {"resolved", "rejected"}

\* how often the current call issued fn for service id
NumCalls(fn, id) ==
  BagCardinality([c \in {x \in BagToSet(calls) : x.fn = fn /\ x.id = id}
                    |-> calls[c]])

\* how often the current call issued fn for child c of service id
NumChildCalls(fn, id, c) ==
  BagCardinality([x \in {x \in BagToSet(calls) :
                           /\ x.fn = fn /\ x.id = id
                           /\ x.type = c._type /\ x.cid = c._id}
                    |-> calls[x]])

\* how many messages with this text the current call printed about id
NumMessages(text, id) ==
  BagCardinality([m \in {x \in BagToSet(messages) :
                           x.text = text /\ x.id = id}
                    |-> messages[m]])

NumChildMessages(text, id, c) ==
  BagCardinality([m \in {x \in BagToSet(messages) :
                           x.text = text /\ x.id = id /\ x.child = c}
                    |-> messages[m]])

Answered(fn, id, c, ok) ==
  [fn |-> fn, id |-> id, child |-> c, ok |-> ok] \in answered

ParentWritten(id) == Answered("putService", id, NoChild, TRUE)
ParentFailed(id) == Answered("putService", id, NoChild, FALSE)

\* C1: in a single service import no child write is issued before the parent
\* write of that service has completed successfully; if the parent write
\* fails no child write is issued at all and the import rejects.
C1_ParentBeforeChildren ==
  \A id \in ServiceIds :
    /\ NumCalls("putServiceNextDescendent", id) > 0 => ParentWritten(id)
    /\ ParentFailed(id) =>
         /\ NumCalls("putServiceNextDescendent", id) = 0
         /\ ret.status = "rejected"

C1_Witness ==
  \E id \in ServiceIds :
    /\ ParentWritten(id)
    /\ NumCalls("putServiceNextDescendent", id) = 2

\* C2: deleteFullService(id) issues the delete of every listed child and
\* still attempts the parent delete, whatever the outcomes of the child
\* deletes.
C2_ParentDeleteRegardless ==
  (top.op = "deleteFullService" /\ Done /\ item[top.id].listed.defined) =>
    /\ \A c \in item[top.id].listed.list :
         NumChildCalls("deleteServiceNextDescendent", top.id, c) = 1
    /\ NumCalls("deleteService", top.id) = 1

\* the envelope entry of id as the caller built it
OriginalEntry(id) == original[Lookup(original, id)].data

\* C3: importing the same envelope twice in a row with clean=true and no
\* remote failure leaves the service with exactly the envelope's children
\* after the second import, as after the first.
C3_IdempotentCleanImport ==
  (/\ top.op = "importService" /\ top.clean /\ Done
   /\ nfail = 0 /\ inflight = {}
   /\ top.id \in Keys(original)
   /\ "nextDescendents" \in OriginalEntry(top.id).has) =>
    remote[top.id] =
      [exists |-> TRUE, children |-> OriginalEntry(top.id).nextDescendents]

\* C4: import never changes the envelope it is given: when the import has
\* settled every entry has the fields and values it had before the call.
C4_EnvelopeUnchanged ==
  (top.op \in {"importService", "importServices"} /\ Done) =>
    importData = original

\* C5: whenever the parent write succeeds the single service import resolves
\* to the service object that write returned, whatever the children and the
\* outcomes of their writes.
C5_ResolvesToParentResult ==
  (top.op = "importService" /\ Done /\ ParentWritten(top.id)) =>
    ret = [status |-> "resolved", value |-> ServiceObj(top.id)]

\* C6: once the parent write has succeeded every child of the entry gets
\* exactly one putServiceNextDescendent with its own type and id, whichever
\* child writes fail; a failing child write prints one message for that child
\* and a succeeding one none.
C6_EveryChildWrittenOnce ==
  \A id \in ServiceIds :
    (top.op = "importService" /\ ParentWritten(id) /\ nd[id].defined) =>
      \A c \in Children :
        /\ NumChildCalls("putServiceNextDescendent", id, c)
             = IF c \in nd[id].list THEN 1 ELSE 0
        /\ NumChildMessages("Put descendent", id, c)
             = IF Answered("putServiceNextDescendent", id, c, FALSE)
               THEN 1 ELSE 0
        /\ (ncalls = 1 => nd[id].list = OriginalEntry(id).nextDescendents)

C6_Witness ==
  \E id \in ServiceIds : \E c1, c2 \in Children :
    /\ top.op = "importService" /\ ParentWritten(id) /\ Done
    /\ Answered("putServiceNextDescendent", id, c1, FALSE)
    /\ Answered("putServiceNextDescendent", id, c2, TRUE)

\* C7: in a clean import the parent write is issued exactly once after the
\* pre-clean deleteFullService has settled, however it failed; a failure with
\* 404 'Not Found' prints nothing, any other failure prints exactly one
\* message.
C7_CleanFailureDoesNotAbort ==
  \A id \in ServiceIds :
    (top.op = "importService" /\ top.clean /\ pc[id] # "idle") =>
      IF item[id].settled
      THEN /\ NumCalls("putService", id) = 1
           /\ NumMessages("Error deleting service before import", id)
                = IF item[id].caught \in {Undefined, NotFound} THEN 0 ELSE 1
      ELSE /\ NumCalls("putService", id) = 0
           /\ NumMessages("Error deleting service before import", id) = 0

C7_Witness ==
  \E id \in ServiceIds : \E c \in Children :
    /\ top.op = "importService" /\ top.clean
    /\ item[id].settled /\ item[id].caught = Forbidden
    /\ Answered("deleteServiceNextDescendent", id, c, FALSE)
    /\ ParentWritten(id)

C10_Pre ==
  top.op = "exportService" /\ Done /\ item[top.id].caught = CapabilityGap

\* C10: when a fetch of exportService fails with the capability gap (403 and
\* the 'not available' message) the result is an empty envelope and nothing
\* is printed for that id.
C10_GapIsSilent ==
  C10_Pre =>
    /\ ret = Settled(Ok(Envelope(createServiceExportTemplate)))
    /\ messages = EmptyBag

ListOk == Answered("getListOfServices", "-", NoChild, TRUE)

\* the items of a batch import that did not fail: the parent write
\* succeeded and the entry holds a child list
Imported(env) ==
  {i \in 1..Len(env) :
     /\ ParentWritten(env[i].id)
     /\ "nextDescendents" \in env[i].data.has}

\* the items of a batch export that did not fail: both fetches succeeded
Fetched(id) ==
  /\ Answered("getService", id, NoChild, TRUE)
  /\ Answered("getServiceDescendents", id, NoChild, TRUE)

\* some request of the current call for service id failed
SomeFailure(id) == \E a \in answered : a.id = id /\ ~a.ok

C8_Import ==
  (top.op = "importServices" /\ Done) =>
    /\ ret = Settled(Ok([t |-> "array", items |-> results]))
    /\ Len(results) = Cardinality(Imported(original))
    /\ \A i \in 1..Len(original) :
         /\ NumCalls("putService", original[i].id) = 1
         /\ i \in Imported(original) =>
              \A c \in original[i].data.nextDescendents :
                \/ Answered("putServiceNextDescendent", original[i].id, c, TRUE)
                \/ Answered("putServiceNextDescendent", original[i].id, c, FALSE)

C8_Export ==
  (top.op \in {"getFullServices", "exportServices"} /\ Done /\ ListOk) =>
    /\ ret.status = "resolved"
    /\ \A k \in 1..Len(top.list) :
         /\ NumCalls("getService", top.list[k]) = 1
         /\ NumCalls("getServiceDescendents", top.list[k]) = 1
    /\ top.op = "getFullServices" =>
         [k \in 1..Len(ret.value.items) |-> ret.value.items[k].id]
           = SelectSeq(top.list, Fetched)
    /\ top.op = "exportServices" =>
         Len(ret.value.service) = Len(SelectSeq(top.list, Fetched))

C8_Delete ==
  (top.op = "deleteFullServices" /\ Done) =>
    /\ ret.status = "resolved"
    /\ \A k \in 1..Len(top.list) :
         /\ NumCalls("getServiceDescendents", top.list[k]) = 1
         /\ ~SomeFailure(top.list[k]) =>
              Answered("deleteService", top.list[k], NoChild, TRUE)

ItemMessages(id) == {m \in BagToSet(messages) : m.id = id}

\* C9: in getFullServices and deleteFullServices an item that fails with 403
\* and the exact capability gap message prints nothing and has no entry in
\* the results; an item that fails otherwise (a 403 with another message
\* too) prints exactly one error message naming its id and has no entry.
C9_GapFilteredOthersReported ==
  \A id \in ServiceIds :
    (/\ top.op \in {"getFullServices", "exportServices", "deleteFullServices"}
     /\ item[id].settled) =>
      LET text == IF top.op = "deleteFullServices" THEN "Delete service"
                  ELSE "Unable to retrieve data"
          e == item[id].caught
      IN /\ e = Undefined => ItemMessages(id) = {}
         /\ e = CapabilityGap => ItemMessages(id) = {} /\ item[id].value = Undefined
         /\ e \notin {Undefined, CapabilityGap} =>
              /\ ItemMessages(id) =
                   {[type |-> "error", text |-> text, id |-> id,
                     child |-> NoChild, message |-> e.message]}
              /\ NumMessages(text, id) = 1
              /\ item[id].value = Undefined
         /\ (e # Undefined /\ Done /\ top.op = "getFullServices"
               /\ ret.status = "resolved") =>
              \A k \in 1..Len(ret.value.items) : ret.value.items[k].id # id

C9_Witness ==
  /\ top.op = "getFullServices" /\ Done
  /\ item["s1"].caught = CapabilityGap
  /\ item["s2"].caught = Forbidden

\* ------------------------------------------------------ script properties
IsScriptCall == top.op = "createOrUpdateScript"

\* the putScript answers the invocation for script key has received
PutAnswers(key) == {a \in answered : a.fn = "putScript" /\ a.id = key}
Conflicts(key) == {a \in PutAnswers(key) : a.status = 409}

\* the scripts other ids hold: a write of script key under their names
\* is a conflict
Foreign(key) == {x \in scripts : x.id # tasks[key].id}
Taken(key, n) == \E x \in Foreign(key) : x.name = ScriptName(n)
StoredAs(key, name) == [id |-> tasks[key].id, name |-> name] \in scripts

\* every failure the invocation met was a name conflict
OnlyConflicts(key) == \A a \in PutAnswers(key) : a.ok \/ a.status = 409

\* C11 as stated: one invocation of createOrUpdateScript issues at most two
\* putScript calls, and ends as a failure when the retry conflicts too.
C11_AtMostTwoWrites ==
  IsScriptCall =>
    /\ NumCalls("putScript", top.id) <= 2
    /\ (Cardinality(Conflicts(top.id)) >= 2 /\ ret.status = "resolved"
          => ret.value.error)

\* C11: on every name conflict (409) createOrUpdateScript renames the script
\* with the collision resolver and writes again, also when the retried write
\* conflicts: an invocation that met k conflicts has issued k+1 putScript
\* calls, and it ends only on a write that did not conflict.
C11_RetryPerConflict ==
  IsScriptCall =>
    /\ NumCalls("putScript", top.id) = Cardinality(Conflicts(top.id)) + 1
    /\ ret.status = "resolved" =>
         Cardinality(PutAnswers(top.id) \ Conflicts(top.id)) = 1

C11_Witness ==
  /\ IsScriptCall
  /\ ret.status = "resolved"
  /\ Cardinality(Conflicts(top.id)) >= 2
  /\ NumCalls("putScript", top.id) >= 3

\* C12: the status object createOrUpdateScript returns has error = false
\* only if some putScript call for the script succeeded, and error = true
\* whenever the script was not stored.
C12_StatusTruthful ==
  (IsScriptCall /\ ret.status = "resolved") =>
    (ret.value.error = FALSE <=> \E a \in PutAnswers(top.id) : a.ok)

\* C13: with N names taken by other scripts, conflict-driven renaming ends
\* after at most N+1 putScript calls, and when no other failure occurred the
\* script is stored under a name that was not taken.
C13_RenamingTerminates ==
  IsScriptCall =>
    /\ NumCalls("putScript", top.id) <= Cardinality(Foreign(top.id)) + 1
    /\ (ret.status = "resolved" /\ OnlyConflicts(top.id)) =>
         /\ StoredAs(top.id, tasks[top.id].name)
         /\ \A x \in Foreign(top.id) : x.name # tasks[top.id].name
         /\ ret.value = [error |-> FALSE, name |-> tasks[top.id].name]

C13_Witness ==
  /\ IsScriptCall
  /\ ret.status = "resolved"
  /\ OnlyConflicts(top.id)
  /\ Cardinality(Foreign(top.id)) = MaxSuffix + 1
  /\ NumCalls("putScript", top.id) = Cardinality(Foreign(top.id)) + 1
  /\ StoredAs(top.id, tasks[top.id].name)

\* the name the caller passed: the name of the first write
GivenName(key, n) ==
  /\ [fn |-> "putScript", id |-> key, type |-> "-", cid |-> tasks[key].id,
      body |-> {ScriptName(n)}] \in BagToSet(calls)
  /\ \A c \in BagToSet(calls) : \A b \in c.body : b.n >= n

Reported == NumMessages("Done", "-") > 0 \/ ret.status = "resolved"

\* C15: when importScriptsFromFile reports completion (the 'Done' of the
\* progress indicator, the resolution of its promise) every createOrUpdateScript
\* it started has finished and no script write is in flight.
C15_CompletionAfterWrites ==
  (top.op = "importScriptsFromFile" /\ Reported) =>
    /\ \A r \in inflight : r.fn \notin {"putScript", "readFile"}
    /\ \A k \in DOMAIN tasks : tasks[k].status # "running"

\* ------------------------------------------------- properties, continued
\* the entry an export returned for service id, 0 when it returned none
Exported(id) ==
  CASE top.op = "exportService" -> Lookup(ret.value.service, id)
    [] top.op = "exportServices" ->
         Lookup(ret.value.service, ServiceTypeId(id))
    [] top.op = "getFullServices" ->
         IF ret.status = "resolved" THEN Lookup(ret.value.items, id) ELSE 0

ExportedEntry(id) ==
  IF top.op = "getFullServices" THEN ret.value.items[Exported(id)].data
  ELSE ret.value.service[Exported(id)].data

IsExport == top.op \in {"exportService", "exportServices", "getFullServices"}

\* C16: every entry an export returns carries the child list that
\* getServiceDescendents returned for its service (the remote's children,
\* which an export never changes), in either order of the two answers;
\* a service one of whose fetches failed has no entry.
C16_EntryHasAllChildren ==
  (IsExport /\ Done) =>
    \A id \in ServiceIds :
      /\ Exported(id) # 0 =>
           /\ "nextDescendents" \in ExportedEntry(id).has
           /\ ExportedEntry(id).nextDescendents = remote[id].children
           /\ Answered("getService", id, NoChild, TRUE)
           /\ Answered("getServiceDescendents", id, NoChild, TRUE)
      /\ ( \/ Answered("getService", id, NoChild, FALSE)
           \/ Answered("getServiceDescendents", id, NoChild, FALSE) )
           => Exported(id) = 0

\* a batch export returned one service with both its children and dropped
\* the other one, whose fetch failed
C16_Witness ==
  /\ top.op = "exportServices"
  /\ Done
  /\ Exported("s2") # 0
  /\ ExportedEntry("s2").nextDescendents = Children
  /\ Answered("getServiceDescendents", "s1", NoChild, FALSE)
  /\ Exported("s1") = 0

\* an importService of the envelope the preceding exportService returned
RoundTrip == top.op = "importService" /\ "exported" \in DOMAIN top

\* C17: exportService(id) followed by importService(id, envelope, clean =
\* true) with no failure, on the same backend or an empty one, leaves the
\* service on the remote with exactly the exported child set.
C17_ExportImportRoundTrip ==
  (RoundTrip /\ Done /\ nfail = 0) =>
    /\ ret.status = "resolved"
    /\ remote[top.id] =
         [exists |-> TRUE,
          children |-> top.exported[1].data.nextDescendents]

C17_Witness ==
  /\ RoundTrip
  /\ Done
  /\ nfail = 0
  /\ top.backend = "empty"
  /\ top.exported[1].data.nextDescendents = Children
  /\ remote[top.id] = [exists |-> TRUE, children |-> Children]

\* C18: no body written during an import holds a backend-assigned field:
\* neither the body of putService nor the body of a
\* putServiceNextDescendent holds _rev or enabled.
C18_NoBackendFieldWritten ==
  top.op \in {"importService", "importServices"} =>
    \A c \in BagToSet(calls) :
      c.fn \in {"putService", "putServiceNextDescendent"} =>
        c.body \cap BackendFields = {}

\* the running importService names an id the envelope has no entry for
MissingEntry == top.op = "importService" /\ Lookup(original, top.id) = 0

\* C19: an importService whose serviceId has no entry in importData.service
\* rejects without issuing any remote call, with or without clean: every step
\* into such a state leaves the remote as it was, with no call issued and
\* none in flight.
C19_MissingEntryNoRemoteCall ==
  [][MissingEntry' =>
       /\ ret'.status = "rejected"
       /\ calls' = EmptyBag
       /\ \A r \in inflight' : r.n # ncalls'
       /\ remote' = remote]_vars

C19_Witness ==
  /\ MissingEntry
  /\ top.clean
  /\ original # <<>>
  /\ remote[top.id] = [exists |-> TRUE, children |-> Children]
  /\ ret.status = "rejected"

ListFailed == Answered("getListOfServices", "-", NoChild, FALSE)

\* C20: when the service list call of getFullServices, exportServices or
\* deleteFullServices fails, the batch is not started: the list call is the
\* only remote call issued, and the operation has ended.
C20_ListFailureStartsNothing ==
  ( /\ top.op \in {"getFullServices", "exportServices", "deleteFullServices"}
    /\ ListFailed )
  => /\ \A c \in BagToSet(calls) : c.fn = "getListOfServices"
     /\ BagCardinality(calls) = 1
     /\ \A r \in inflight : r.n # ncalls
     /\ Done

C20_Witness ==
  /\ top.op = "deleteFullServices"
  /\ ListFailed
  /\ Done
  /\ \A i \in ServiceIds : remote[i].exists /\ remote[i].children # {}

\* the requests of the running call still in flight for service id
InFlight(fns, id) ==
  {r \in inflight : r.fn \in fns /\ r.id = id /\ r.n = ncalls}

\* C21: in a clean import no pre-clean delete request (child or parent) of
\* the import is in flight while the parent write or a child write of that
\* import is: the writes are issued only after every delete was answered.
C21_NoDeleteInFlightAtWrite ==
  (top.op = "importService" /\ top.clean) =>
    ( InFlight({"putService", "putServiceNextDescendent"}, top.id) # {}
      => InFlight({"deleteServiceNextDescendent", "deleteService"},
                  top.id) = {} )

\* C22: the first import of an entry without children, its child list empty
\* or absent, ends right after the successful parent write: it issues no
\* child write and resolves to the result of the parent write.
C22_NoChildrenEndsAfterParent ==
  ( /\ top.op = "importService"
    /\ ncalls = 1
    /\ Lookup(original, top.id) # 0
    /\ OriginalEntry(top.id).nextDescendents = {}
    /\ ParentWritten(top.id) )
  => /\ ret = [status |-> "resolved", value |-> ServiceObj(top.id)]
     /\ \A c \in BagToSet(calls) : c.fn # "putServiceNextDescendent"

\* C23: once the variables were listed, a failed deleteVariable of any kind
\* does not stop deleteVariablesCmd: the command does not reject, and when
\* it has ended it has attempted one delete for every listed variable.
C23_VariableFailureDoesNotStop ==
  ( /\ top.op = "deleteVariablesCmd"
    /\ Answered("getVariables", "-", NoChild, TRUE) )
  => /\ ret.status # "rejected"
     /\ Done => \A i \in 1..Len(top.list) :
                  NumCalls("deleteVariable", top.list[i]) = 1

\* an importService of an entry the envelope holds has succeeded with no
\* injected failure
ImportSucceeded ==
  /\ top.op = "importService"
  /\ Lookup(original, top.id) # 0
  /\ ret.status = "resolved"
  /\ nfail = 0

\* what C24 says of the remote once the import has succeeded
ChildSetAfterImport ==
  ImportSucceeded =>
    IF top.clean
    THEN remote[top.id].children = OriginalEntry(top.id).nextDescendents
    ELSE OriginalEntry(top.id).nextDescendents
           \subseteq remote[top.id].children

\* C24: after a clean import that succeeded with no remote failure the
\* remote child set of the service is exactly the entry's child set; an
\* import with clean = false never removes a child of the service and ends
\* with the entry's children added to those it found.
C24_CleanReplacesChildren ==
  [][/\ ChildSetAfterImport'
     /\ (top'.op = "importService" /\ ~top'.clean) =>
          remote[top'.id].children \subseteq remote'[top'.id].children]_vars

\* a clean import removed child c2, which the entry does not name
C24_Witness ==
  /\ ImportSucceeded
  /\ top.clean
  /\ OriginalEntry(top.id).nextDescendents = {Child("a", "c1")}
  /\ NumChildCalls("deleteServiceNextDescendent", top.id, Child("b", "c2")) = 1
  /\ remote[top.id].children = {Child("a", "c1")}

\* C25: the envelope exportServices returns has exactly one entry per
\* fetched service, under the id the service was listed and fetched with.
C25_KeyedByListedId ==
  (top.op = "exportServices" /\ Done /\ ListOk) =>
    /\ Keys(ret.value.service) = {id \in ServiceIds : Fetched(id)}
    /\ Len(ret.value.service) = Cardinality({id \in ServiceIds : Fetched(id)})

\* the entries of a batch import that succeeded, in envelope order, and the
\* value each of them resolved to
SucceededEntries ==
  SelectSeq(original,
            LAMBDA e : ParentWritten(e.id) /\ "nextDescendents" \in e.data.has)

ResolvedValue(e) ==
  IF e.data.nextDescendents = {} THEN ServiceObj(e.id) ELSE Undefined

\* C26: getFullServices returns the fetched services in the order of the
\* service list and putFullServices returns the results of the succeeded
\* entries in the order of the envelope, the failed items left out, in
\* whatever order the remote calls were answered.
C26_StableInputOrder ==
  /\ (top.op = "getFullServices" /\ Done /\ ListOk) =>
       /\ ret.status = "resolved"
       /\ [k \in 1..Len(ret.value.items) |-> ret.value.items[k].id]
            = SelectSeq(top.list, Fetched)
  /\ (top.op = "importServices" /\ Done) =>
       /\ ret = [status |-> "resolved",
                 value |-> [t |-> "array", items |-> results]]
       /\ results = [k \in 1..Len(SucceededEntries) |->
                       ResolvedValue(SucceededEntries[k])]

\* both listed services were fetched
C26_Witness ==
  /\ top.op = "getFullServices"
  /\ Done
  /\ ret.status = "resolved"
  /\ [k \in 1..Len(ret.value.items) |-> ret.value.items[k].id] = ServiceOrder

Writes == {"putService", "putServiceNextDescendent"}

====
